---------------------------- MODULE Spec2Model ----------------------------
(***************************************************************************)
(* A model of logxi's JSONFormatter (v1/jsonFormatter.go).                 *)
(*                                                                         *)
(* Text is modelled at the level of single characters: a Go string or a    *)
(* byte buffer is a sequence of one-character strings, so that what the    *)
(* formatter writes raw and what it writes through json.Marshal differ     *)
(* exactly where they differ in the program.  A Go value (interface{}) is  *)
(* a record [k, s, n, isErr, es]: its reflect.Kind, its text, its number,  *)
(* whether its dynamic type implements error, and its pointee/elements.    *)
(***************************************************************************)
EXTENDS Integers, Sequences, FiniteSets, TLC

\* ------------------------------------------------------------------ bounds

\* longest argument sequence passed to a call
MaxArgs == 4
\* number of calls that run concurrently on one formatter in SpecConc
NumCalls == 2

\* ------------------------------------------------------------- characters

Q == "\""
BS == "\\"
NL == "\n"
TAB == "\t"
CR == "\r"
\* backspace (0x08) and form feed (0x0c)
BSP == "<08>"
FF == "<0c>"

DigitChars == <<"0", "1", "2", "3", "4", "5", "6", "7", "8", "9">>
Digits == {DigitChars[d] : d \in 1..10}
HexChars == Digits \cup {"a", "b", "c", "d", "e", "f", "A", "B", "C", "D", "E", "F"}
\* characters below 0x20
ControlChars == {NL, TAB, CR, BSP, FF}

\* ss[lo] \o ... \o ss[hi], by halves
RECURSIVE ConcatRange(_, _, _)
ConcatRange(ss, lo, hi) ==
    IF lo > hi THEN <<>>
    ELSE IF lo = hi THEN ss[lo]
    ELSE LET mid == (lo + hi) \div 2
         IN  ConcatRange(ss, lo, mid) \o ConcatRange(ss, mid + 1, hi)

Concat(ss) == ConcatRange(ss, 1, Len(ss))

\* ss joined with sep between consecutive elements
Join(ss, sep) == Concat([j \in 1..Len(ss) |-> IF j = 1 THEN ss[j] ELSE sep \o ss[j]])

Min(S) == CHOOSE x \in S : \A y \in S : x <= y

IsPrefix(a, b) == Len(a) <= Len(b) /\ SubSeq(b, 1, Len(a)) = a

\* ------------------------------------------------------------- Go values

Val(k, s, n, isErr, es) == [k |-> k, s |-> s, n |-> n, isErr |-> isErr, es |-> es]

NilVal == Val("nil", <<>>, 0, FALSE, <<>>)
\* the zero reflect.Value (reflect.Invalid): what Elem() of a nil pointer gives
InvalidVal == Val("invalid", <<>>, 0, FALSE, <<>>)
StrVal(s) == Val("string", s, 0, FALSE, <<>>)
BoolVal(b) == Val("bool", <<>>, IF b THEN 1 ELSE 0, FALSE, <<>>)
IntVal(n) == Val("int", <<>>, n, FALSE, <<>>)
UintVal(n) == Val("uint", <<>>, n, FALSE, <<>>)
\* a finite float64 worth tenths/10
FloatVal(tenths) == Val("float64", <<>>, tenths, FALSE, <<>>)
Float32Val(tenths) == Val("float32", <<>>, tenths, FALSE, <<>>)
NaNVal == Val("float64", <<"nan">>, 0, FALSE, <<>>)
InfVal == Val("float64", <<"+inf">>, 0, FALSE, <<>>)
\* a non-nil pointer to v; a pointer type has the methods of its element type
PtrVal(v) == Val("ptr", <<>>, 0, v.isErr, <<v>>)
\* (*T)(nil) for a type T that is no error
NilPtrVal == Val("ptr", <<>>, 0, FALSE, <<>>)
\* (*E)(nil) for an error type E
NilErrPtrVal == Val("ptr", <<>>, 0, TRUE, <<>>)
\* struct{ A int }{n}
StructVal(n) == Val("struct", <<>>, n, FALSE, <<>>)
\* struct{ s string }{text} with method Error() string { return e.s }
ErrStructVal(text) == Val("struct", text, 0, TRUE, <<>>)
\* what errors.New(text) returns: a pointer to such a struct
ErrorsNew(text) == PtrVal(ErrStructVal(text))
\* type Errno uintptr with method Error(), as syscall.Errno
ErrnoVal(n, text) == Val("uint", text, n, TRUE, <<>>)
FuncVal == Val("func", <<>>, 0, FALSE, <<>>)
ChanVal == Val("chan", <<>>, 0, FALSE, <<>>)
\* m := map[string]interface{}{}; m["m"] = m
CyclicMapVal == Val("map", <<>>, 0, FALSE, <<>>)
\* []interface{}{es...}
SliceVal(es) == Val("slice", <<>>, 0, FALSE, es)

\* ------------------------------------------------------------- strconv

RECURSIVE FormatUint(_)
FormatUint(n) ==
    IF n < 10 THEN <<DigitChars[n + 1]>>
    ELSE FormatUint(n \div 10) \o <<DigitChars[(n % 10) + 1]>>

FormatInt(n) == IF n < 0 THEN <<"-">> \o FormatUint(-n) ELSE FormatUint(n)

\* strconv.FormatFloat(f, 'g', -1, bits) of NaN, the infinities, and of a
\* finite f = tenths/10 with 0.0001 <= |f| < 1e6 or f = 0 (where %g prints
\* as %f with the shortest digits)
FormatFloat(v) ==
    CASE v.s = <<"nan">> -> <<"N", "a", "N">>
      [] v.s = <<"+inf">> -> <<"+", "I", "n", "f">>
      [] v.s = <<"-inf">> -> <<"-", "I", "n", "f">>
      [] OTHER ->
            LET a == IF v.n < 0 THEN -v.n ELSE v.n
                sign == IF v.n < 0 THEN <<"-">> ELSE <<>>
                frac == IF a % 10 = 0 THEN <<>> ELSE <<".", DigitChars[(a % 10) + 1]>>
            IN  sign \o FormatUint(a \div 10) \o frac

\* ------------------------------------------------------------- encoding/json

\* how encoding/json writes one character of a string (Marshal escapes HTML)
EscapeChar(c) ==
    CASE c = Q -> <<BS, Q>>
      [] c = BS -> <<BS, BS>>
      [] c = NL -> <<BS, "n">>
      [] c = CR -> <<BS, "r">>
      [] c = TAB -> <<BS, "t">>
      [] c = BSP -> <<BS, "u", "0", "0", "0", "8">>
      [] c = FF -> <<BS, "u", "0", "0", "0", "c">>
      [] c = "<" -> <<BS, "u", "0", "0", "3", "c">>
      [] c = ">" -> <<BS, "u", "0", "0", "3", "e">>
      [] c = "&" -> <<BS, "u", "0", "0", "2", "6">>
      [] OTHER -> <<c>>

EscapeAll(s) == Concat([j \in 1..Len(s) |-> EscapeChar(s[j])])

QuoteJSON(s) == <<Q>> \o EscapeAll(s) \o <<Q>>

MarshalOk(b) == [ok |-> TRUE, b |-> b]
MarshalErr == [ok |-> FALSE, b |-> <<>>]

\* json.Marshal(v): [ok |-> err == nil, b |-> the bytes]
RECURSIVE JsonMarshal(_)
RECURSIVE MarshalElems(_)
MarshalElems(es) ==
    IF es = <<>> THEN <<>> ELSE <<JsonMarshal(Head(es))>> \o MarshalElems(Tail(es))

JsonMarshal(v) ==
    CASE v.k = "nil" -> MarshalOk(<<"n", "u", "l", "l">>)
      [] v.k = "string" -> MarshalOk(QuoteJSON(v.s))
      [] v.k = "bool" ->
            MarshalOk(IF v.n = 1 THEN <<"t", "r", "u", "e">> ELSE <<"f", "a", "l", "s", "e">>)
      [] v.k \in {"int", "uint"} -> MarshalOk(FormatInt(v.n))
      [] v.k \in {"float32", "float64"} ->
            \* UnsupportedValueError for NaN and the infinities
            IF v.s # <<>> THEN MarshalErr ELSE MarshalOk(FormatFloat(v))
      [] v.k = "ptr" ->
            IF v.es = <<>> THEN MarshalOk(<<"n", "u", "l", "l">>) ELSE JsonMarshal(v.es[1])
      [] v.k = "struct" ->
            \* the error struct has no exported field
            IF v.isErr THEN MarshalOk(<<"{", "}">>)
            ELSE MarshalOk(<<"{", Q, "A", Q, ":">> \o FormatInt(v.n) \o <<"}">>)
      [] v.k = "slice" ->
            LET ms == MarshalElems(v.es)
            IN  IF \E j \in 1..Len(ms) : ~ms[j].ok THEN MarshalErr
                ELSE MarshalOk(<<"[">> \o Join([j \in 1..Len(ms) |-> ms[j].b], <<",">>) \o <<"]">>)
      \* func, chan: UnsupportedTypeError; the cyclic map: "encountered a cycle"
      [] OTHER -> MarshalErr


\* ------------------------------------------------------------- fmt

\* strconv.Quote, which %#v uses for a string
GoQuoteChar(c) ==
    CASE c = Q -> <<BS, Q>>
      [] c = BS -> <<BS, BS>>
      [] c = NL -> <<BS, "n">>
      [] c = CR -> <<BS, "r">>
      [] c = TAB -> <<BS, "t">>
      [] OTHER -> <<c>>

GoQuoteAll(s) == Concat([j \in 1..Len(s) |-> GoQuoteChar(s[j])])

GoQuote(s) == <<Q>> \o GoQuoteAll(s) \o <<Q>>

\* the Go-syntax name of v's type
RECURSIVE TypeName(_)
TypeName(v) ==
    CASE v.k = "nil" -> <<"i", "n", "t", "e", "r", "f", "a", "c", "e", " ", "{", "}">>
      [] v.k = "string" -> <<"s", "t", "r", "i", "n", "g">>
      [] v.k = "bool" -> <<"b", "o", "o", "l">>
      [] v.k = "int" -> <<"i", "n", "t">>
      [] v.k = "uint" -> IF v.isErr THEN <<"E", "r", "r", "n", "o">> ELSE <<"u", "i", "n", "t">>
      [] v.k \in {"float32", "float64"} -> <<"f", "l", "o", "a", "t">>
      [] v.k = "ptr" -> <<"*">> \o (IF v.es = <<>> THEN (IF v.isErr THEN <<"E">> ELSE <<"T">>)
                                    ELSE TypeName(v.es[1]))
      [] v.k = "struct" -> IF v.isErr THEN <<"E">> ELSE <<"T">>
      [] v.k = "func" -> <<"f", "u", "n", "c", "(", ")">>
      [] v.k = "chan" -> <<"c", "h", "a", "n", " ", "i", "n", "t">>
      [] v.k = "slice" -> <<"[", "]", "i", "n", "t", "e", "r", "f", "a", "c", "e", " ", "{", "}">>
      [] OTHER -> <<"m", "a", "p">>

\* an address as %#v prints it
Addr == <<"0", "x", "1">>

SyntaxOk(b) == [ok |-> TRUE, b |-> b]
\* fmt follows a cyclic map for ever: the goroutine's stack overflows, which
\* is fatal and cannot be recovered
SyntaxOverflow == [ok |-> FALSE, b |-> <<>>]

\* fmt.Sprintf("%#v", v) for v at nesting depth `depth`
RECURSIVE GoSyntax(_, _)
RECURSIVE SyntaxElems(_, _)
SyntaxElems(es, depth) ==
    IF es = <<>> THEN <<>> ELSE <<GoSyntax(Head(es), depth)>> \o SyntaxElems(Tail(es), depth)

GoSyntax(v, depth) ==
    CASE v.k = "nil" ->
            SyntaxOk(IF depth = 0 THEN <<"<", "n", "i", "l", ">">>
                     ELSE TypeName(v) \o <<"(", "n", "i", "l", ")">>)
      [] v.k = "string" -> SyntaxOk(GoQuote(v.s))
      [] v.k = "bool" ->
            SyntaxOk(IF v.n = 1 THEN <<"t", "r", "u", "e">> ELSE <<"f", "a", "l", "s", "e">>)
      [] v.k = "int" -> SyntaxOk(FormatInt(v.n))
      \* %#v prints an unsigned integer in hexadecimal (values below 10 here)
      [] v.k = "uint" -> SyntaxOk(<<"0", "x">> \o FormatUint(v.n))
      [] v.k \in {"float32", "float64"} -> SyntaxOk(FormatFloat(v))
      [] v.k = "ptr" ->
            IF v.es = <<>> THEN SyntaxOk(<<"(">> \o TypeName(v) \o <<")", "(", "n", "i", "l", ")">>)
            ELSE IF depth = 0 /\ v.es[1].k \in {"struct", "slice", "map"}
                 THEN LET r == GoSyntax(v.es[1], depth + 1)
                      IN  IF r.ok THEN SyntaxOk(<<"&">> \o r.b) ELSE SyntaxOverflow
                 ELSE SyntaxOk(<<"(">> \o TypeName(v) \o <<")", "(">> \o Addr \o <<")">>)
      [] v.k = "struct" ->
            SyntaxOk(IF v.isErr THEN <<"E", "{", "s", ":">> \o GoQuote(v.s) \o <<"}">>
                     ELSE <<"T", "{", "A", ":">> \o FormatInt(v.n) \o <<"}">>)
      [] v.k \in {"func", "chan"} ->
            SyntaxOk(<<"(">> \o TypeName(v) \o <<")", "(">> \o Addr \o <<")">>)
      [] v.k = "slice" ->
            LET rs == SyntaxElems(v.es, depth + 1)
            IN  IF \E j \in 1..Len(rs) : ~rs[j].ok THEN SyntaxOverflow
                ELSE SyntaxOk(TypeName(v) \o <<"{">>
                              \o Join([j \in 1..Len(rs) |-> rs[j].b], <<",", " ">>) \o <<"}">>)
      [] OTHER -> SyntaxOverflow

\* ------------------------------------------------- the formatter's surroundings

\* time.Now().Format(timeFormat): a timestamp of plain characters
TimeNow == <<"9">>

\* LevelMap[level]: the name of a level the table holds, "" for any other
LevelMap(level) == IF level = 1 THEN <<"I", "N", "F">> ELSE <<>>

callstackKey == <<"c", "a", "l", "l", "s", "t", "a", "c", "k">>

warnImbalancedKey == <<"a", "r", "g", "s", "(", "o", "d", "d", ")">>

\* i is the index of the key in the argument sequence, counted from 0
badKeyAtIndex(i) == <<"b", "a", "d", "K", "e", "y", "[">> \o FormatInt(i) \o <<"]">>

\* string(debug.Stack()): lines of text, indented with tabs
DebugStack == <<"g", "o", NL, TAB, "f">>

\* ------------------------------------------------------------- JSONFormatter

\* The writing operations work on a record st:
\*   buf   the bytes.Buffer they append to
\*   ok    FALSE once the goroutine has panicked (or died of a stack overflow)
\*   log   one record per call of set, in call order: the key and value it was
\*         given, the offset in buf where it started writing, and the call
\*         site (site, i) taken from st when it was called
\*   site  "pair" / "odd": set is called from Format's loop or for an odd
\*         argument count; "callstack": from writeError
\*   i     Format's loop index
Write(st, b) == [st EXCEPT !.buf = @ \o b]

Panic(st) == [st EXCEPT !.ok = FALSE]

writeString(st, s) ==
    LET r == JsonMarshal(StrVal(s))
    IN  IF ~r.ok
        THEN Write(st, <<Q, "C", "o", "u", "l", "d", " ", "n", "o", "t", " ", "m", "a", "r",
                         "s", "h", "a", "l", " ", "t", "h", "i", "s", " ", "k", "e", "y",
                         "'", "s", " ", "s", "t", "r", "i", "n", "g", Q>>)
        ELSE Write(st, r.b)

\* err.Error() for the error types of the model; a nil *E dereferences nil
ErrorPanics(err) == err.k = "ptr" /\ err.es = <<>>
ErrorText(err) == IF err.k = "ptr" THEN err.es[1].s ELSE err.s

RECURSIVE appendValue(_, _)
RECURSIVE set(_, _, _)
RECURSIVE writeError(_, _)

\* writeError that writes the error's text and no call stack
writeErrorNoStack(st, err) ==
    IF ErrorPanics(err) THEN Panic(st) ELSE writeString(st, ErrorText(err))

\* writeError with the call stack written before the error's own text
writeErrorStackFirst(st, err) ==
    IF ErrorPanics(err) THEN Panic(st)
    ELSE writeString(set([st EXCEPT !.site = "callstack"], callstackKey, StrVal(DebugStack)),
                     ErrorText(err))

writeError(st, err) ==
    IF ErrorPanics(err) THEN Panic(st)
    ELSE set([writeString(st, ErrorText(err)) EXCEPT !.site = "callstack"],
             callstackKey, StrVal(DebugStack))

\* the kinds the switch has a case for
IsBoolKind(kind) == kind = "bool"
IsIntKind(kind) == kind = "int"
IsUintKind(kind) == kind = "uint"
IsFloatKind(kind) == kind \in {"float32", "float64"}

\* reflect.Value.Elem of a pointer
Elem(v) == IF v.es = <<>> THEN InvalidVal ELSE v.es[1]

\* the default case of appendValue's switch, once val is known not to be an error
appendDefault(st, value) ==
    \* Interface() of the zero Value panics
    IF value.k = "invalid" THEN Panic(st)
    ELSE LET m == JsonMarshal(value)
         IN  IF m.ok THEN Write(st, m.b)
             ELSE LET s == GoSyntax(value, 0)
                  IN  IF ~s.ok THEN Panic(st)
                      ELSE LET m2 == JsonMarshal(StrVal(s.b))
                           IN  IF ~m2.ok
                               THEN Write(st, <<Q, "C", "o", "u", "l", "d", " ", "n", "o", "t",
                                                " ", "S", "p", "r", "i", "n", "t", "f", " ",
                                                "v", "a", "l", "u", "e", Q>>)
                               ELSE Write(st, m2.b)

appendValue(st, val) ==
    IF val.k = "nil" THEN Write(st, <<"n", "u", "l", "l">>)
    ELSE LET value == IF val.k = "ptr" THEN Elem(val) ELSE val
             kind == value.k
         IN  CASE IsBoolKind(kind) ->
                    Write(st, IF value.n = 1 THEN <<"t", "r", "u", "e">>
                              ELSE <<"f", "a", "l", "s", "e">>)
               [] IsIntKind(kind) -> Write(st, FormatInt(value.n))
               [] IsUintKind(kind) -> Write(st, FormatUint(value.n))
               [] IsFloatKind(kind) -> Write(st, FormatFloat(value))
               [] OTHER ->
                    IF val.isErr THEN writeError(st, val)
                    ELSE appendDefault(st, value)

set(st, key, val) ==
    LET rec == [key |-> key, at |-> Len(st.buf) + 1, val |-> val, site |-> st.site, i |-> st.i]
    IN  appendValue([st EXCEPT !.buf = @ \o <<",", " ", Q>> \o key \o <<Q, ":">>,
                               !.log = Append(@, rec)],
                    val)

\* lines 105-115: the "_t", "_l" and "_n" members
FormatHead(st, nm, lvl) ==
    Write(st, <<"{", Q, "_", "t", Q, ":", Q>> \o TimeNow \o <<Q>>
              \o <<",", " ", Q, "_", "l", Q, ":", Q>> \o LevelMap(lvl) \o <<Q>>
              \o <<",", " ", Q, "_", "n", Q, ":", Q>> \o nm \o <<Q>>)

\* the message written between quotes as it is, the way the name is
FormatMsgRaw(st, m) == Write(st, <<",", " ", Q, "_", "m", Q, ":", Q>> \o m \o <<Q>>)

\* lines 117-118: the "_m" member; msg is a Go string
FormatMsg(st, m) == appendValue(Write(st, <<",", " ", Q, "_", "m", Q, ":">>), StrVal(m))

\* FormatPair with the marker made from the number of the pair, not from the
\* index of its key
FormatPairPairIndex(st, as, i) ==
    LET k == as[i + 1]
        st1 == [st EXCEPT !.site = "pair", !.i = i]
    IN  IF k.k = "string" /\ k.s # <<>> THEN set(st1, k.s, as[i + 2])
        ELSE set(st1, badKeyAtIndex(i \div 2), as[i + 2])

\* lines 124-134: the pair whose key is at index i (from 0) of an even-length as
FormatPair(st, as, i) ==
    LET k == as[i + 1]
        st1 == [st EXCEPT !.site = "pair", !.i = i]
    IN  IF k.k = "string"
        THEN IF k.s = <<>> THEN set(st1, badKeyAtIndex(i), as[i + 2])
             ELSE set(st1, k.s, as[i + 2])
        ELSE set(st1, badKeyAtIndex(i), as[i + 2])

\* FormatOdd that keeps only the argument left without a partner
FormatOddLast(st, as) ==
    set([st EXCEPT !.site = "odd", !.i = 0], warnImbalancedKey, SliceVal(<<as[Len(as)]>>))

\* line 137: an odd-length as
FormatOdd(st, as) == set([st EXCEPT !.site = "odd", !.i = 0], warnImbalancedKey, SliceVal(as))

\* line 140
FormatClose(st) == Write(st, <<"}", NL>>)

\* ------------------------------------------------------------- json.Unmarshal

\* A decoded JSON value is [t, s, m]: t its type; s a string's characters
\* (escapes undone), a number's literal or the name of true/false/null; m
\* the elements of an array or the members [k, v] of an object, where of
\* several members with one key the last is kept, as in a Go map.
JStr(s) == [t |-> "str", s |-> s, m |-> <<>>]
JNum(s) == [t |-> "num", s |-> s, m |-> <<>>]
JLit(s) == [t |-> "lit", s |-> s, m |-> <<>>]
JArr(es) == [t |-> "arr", s |-> <<>>, m |-> es]

\* the members no later member overrides
LastWins(ms) ==
    LET keep == {j \in 1..Len(ms) : \A h \in (j + 1)..Len(ms) : ms[h].k # ms[j].k}
        pick[j \in 0..Len(ms)] ==
            IF j = 0 THEN <<>>
            ELSE IF j \in keep THEN Append(pick[j - 1], ms[j]) ELSE pick[j - 1]
    IN  pick[Len(ms)]

JObj(ms) == [t |-> "obj", s |-> <<>>, m |-> LastWins(ms)]

Parsed(v, next) == [ok |-> TRUE, end |-> next, v |-> v]
SyntaxError == [ok |-> FALSE, end |-> 0, v |-> JLit(<<>>)]

IsSpace(c) == c \in {" ", NL, TAB, CR}

\* the first position from p on that holds no white space (no digit)
SkipSpace(b, p) == Min({q \in p..Len(b) : ~IsSpace(b[q])} \cup {Len(b) + 1})

SkipDigits(b, p) == Min({q \in p..Len(b) : b[q] \notin Digits} \cup {Len(b) + 1})

\* the character a \uXXXX escape stands for
Unicode(hex) ==
    CASE hex = <<"0", "0", "3", "c">> -> "<"
      [] hex = <<"0", "0", "0", "8">> -> BSP
      [] hex = <<"0", "0", "0", "c">> -> FF
      [] hex = <<"0", "0", "3", "e">> -> ">"
      [] hex = <<"0", "0", "2", "6">> -> "&"
      [] OTHER -> "?"

Unescape(c) ==
    CASE c = "n" -> NL
      [] c = "t" -> TAB
      [] c = "r" -> CR
      [] c = "b" -> BSP
      [] c = "f" -> FF
      [] OTHER -> c

\* a string whose opening quote is before position p; acc is what was read
\* (the characters up to the next quote, backslash or control character are
\* taken in one step)
RECURSIVE ScanString(_, _, _)
ScanString(b, p0, acc0) ==
    LET stops == {q \in p0..Len(b) : b[q] \in {Q, BS} \cup ControlChars}
    IN  IF stops = {} THEN SyntaxError
        ELSE LET p == Min(stops)
                 acc == acc0 \o SubSeq(b, p0, p - 1)
             IN  IF b[p] = Q THEN Parsed(JStr(acc), p + 1)
                 ELSE IF b[p] = BS
                 THEN IF p + 1 > Len(b) THEN SyntaxError
                      ELSE IF b[p + 1] \in {Q, BS, "/", "b", "f", "n", "r", "t"}
                      THEN ScanString(b, p + 2, Append(acc, Unescape(b[p + 1])))
                      ELSE IF b[p + 1] = "u" /\ p + 5 <= Len(b)
                              /\ \A h \in (p + 2)..(p + 5) : b[h] \in HexChars
                      THEN ScanString(b, p + 6, Append(acc, Unicode(SubSeq(b, p + 2, p + 5))))
                      ELSE SyntaxError
                 ELSE SyntaxError

\* -? (0 | [1-9][0-9]*) (. [0-9]+)? ([eE] [+-]? [0-9]+)?
ScanNumber(b, p) ==
    LET p1 == IF b[p] = "-" THEN p + 1 ELSE p
        p2 == IF p1 <= Len(b) /\ b[p1] = "0" THEN p1 + 1 ELSE SkipDigits(b, p1)
        hasFrac == p2 <= Len(b) /\ b[p2] = "."
        p3 == IF hasFrac THEN SkipDigits(b, p2 + 1) ELSE p2
        hasExp == p3 <= Len(b) /\ b[p3] \in {"e", "E"}
        p4 == IF hasExp /\ p3 + 1 <= Len(b) /\ b[p3 + 1] \in {"+", "-"} THEN p3 + 2 ELSE p3 + 1
        p5 == IF hasExp THEN SkipDigits(b, p4) ELSE p3
    IN  IF p2 = p1 \/ (hasFrac /\ p3 = p2 + 1) \/ (hasExp /\ p5 = p4) THEN SyntaxError
        ELSE Parsed(JNum(SubSeq(b, p, p5 - 1)), p5)

ScanLiteral(b, p, word) ==
    IF p + Len(word) - 1 <= Len(b) /\ SubSeq(b, p, p + Len(word) - 1) = word
    THEN Parsed(JLit(word), p + Len(word))
    ELSE SyntaxError

\* the value that starts at or after position p0 of b
RECURSIVE ParseValue(_, _)
RECURSIVE ParseMembers(_, _, _)
RECURSIVE ParseElems(_, _, _)

\* p0 is where a member's key is expected
ParseMembers(b, p0, acc) ==
    LET p == SkipSpace(b, p0)
    IN  IF p > Len(b) \/ b[p] # Q THEN SyntaxError
        ELSE LET k == ScanString(b, p + 1, <<>>)
             IN  IF ~k.ok THEN SyntaxError
                 ELSE LET c == SkipSpace(b, k.end)
                      IN  IF c > Len(b) \/ b[c] # ":" THEN SyntaxError
                          ELSE LET v == ParseValue(b, c + 1)
                               IN  IF ~v.ok THEN SyntaxError
                                   ELSE LET d == SkipSpace(b, v.end)
                                            acc2 == Append(acc, [k |-> k.v.s, v |-> v.v])
                                        IN  IF d > Len(b) THEN SyntaxError
                                            ELSE IF b[d] = "," THEN ParseMembers(b, d + 1, acc2)
                                            ELSE IF b[d] = "}" THEN Parsed(JObj(acc2), d + 1)
                                            ELSE SyntaxError

\* p0 is where an element is expected
ParseElems(b, p0, acc) ==
    LET v == ParseValue(b, p0)
    IN  IF ~v.ok THEN SyntaxError
        ELSE LET d == SkipSpace(b, v.end)
                 acc2 == Append(acc, v.v)
             IN  IF d > Len(b) THEN SyntaxError
                 ELSE IF b[d] = "," THEN ParseElems(b, d + 1, acc2)
                 ELSE IF b[d] = "]" THEN Parsed(JArr(acc2), d + 1)
                 ELSE SyntaxError

ParseValue(b, p0) ==
    LET p == SkipSpace(b, p0)
    IN  IF p > Len(b) THEN SyntaxError
        ELSE CASE b[p] = Q -> ScanString(b, p + 1, <<>>)
               [] b[p] = "{" ->
                    LET c == SkipSpace(b, p + 1)
                    IN  IF c <= Len(b) /\ b[c] = "}" THEN Parsed(JObj(<<>>), c + 1)
                        ELSE ParseMembers(b, p + 1, <<>>)
               [] b[p] = "[" ->
                    LET c == SkipSpace(b, p + 1)
                    IN  IF c <= Len(b) /\ b[c] = "]" THEN Parsed(JArr(<<>>), c + 1)
                        ELSE ParseElems(b, p + 1, <<>>)
               [] b[p] = "t" -> ScanLiteral(b, p, <<"t", "r", "u", "e">>)
               [] b[p] = "f" -> ScanLiteral(b, p, <<"f", "a", "l", "s", "e">>)
               [] b[p] = "n" -> ScanLiteral(b, p, <<"n", "u", "l", "l">>)
               [] b[p] \in Digits \cup {"-"} -> ScanNumber(b, p)
               [] OTHER -> SyntaxError

\* the whole of b is one JSON value, white space around it allowed
ParseDocument(b) ==
    LET r == ParseValue(b, 1)
    IN  IF r.ok /\ SkipSpace(b, r.end) = Len(b) + 1 THEN r ELSE SyntaxError

\* json.Unmarshal(b, &entry) for entry map[string]interface{}:
\* [ok |-> err == nil, entry |-> the map, a function from keys to values]
Unmarshal(b) ==
    LET r == ParseDocument(b)
    IN  IF r.ok /\ r.v.t = "obj"
        THEN [ok |-> TRUE,
              entry |-> [k \in {r.v.m[j].k : j \in 1..Len(r.v.m)} |->
                            (CHOOSE mm \in {r.v.m[j] : j \in 1..Len(r.v.m)} : mm.k = k).v]]
        ELSE [ok |-> FALSE, entry |-> <<>>]

\* the state the writing operations start from
FreshBuffer == [buf |-> <<>>, ok |-> TRUE, log |-> <<>>, site |-> "", i |-> 0]

\* lines 123-135: the pairs from index i on
RECURSIVE FormatPairs(_, _, _)
FormatPairs(st, as, i) ==
    IF i >= Len(as) \/ ~st.ok THEN st ELSE FormatPairs(FormatPair(st, as, i), as, i + 2)

\* Format(buf, lvl, m, as) on an empty buffer, run from start to end
Format(nm, lvl, m, as) ==
    LET st1 == FormatMsg(FormatHead(FreshBuffer, nm, lvl), m)
        st2 == IF Len(as) = 0 THEN st1
               ELSE IF Len(as) % 2 = 0 THEN FormatPairs(st1, as, 0)
               ELSE FormatOdd(st1, as)
    IN  IF st2.ok THEN FormatClose(st2) ELSE st2

\* ------------------------------------------------------------- inputs

Names == {<<"n">>, <<Q>>}
Levels == {1, 0}
Msgs == {<<"m">>, <<BS, Q>>}

\* what a caller puts where a key belongs: a name, the empty string, a name
\* with quotes in it (":0,"x), the name of a fixed member, something that is
\* no string
KeyArgs ==
    {StrVal(<<"k">>), StrVal(<<>>), StrVal(<<Q, ":", "0", ",", Q, "x">>), StrVal(<<"_", "m">>),
     IntVal(7)}

ValueArgs ==
    {NilVal, StrVal(<<"v", "<">>), BoolVal(FALSE), IntVal(12), UintVal(10), FloatVal(15),
     Float32Val(-5), NaNVal, InfVal, PtrVal(BoolVal(TRUE)), PtrVal(PtrVal(IntVal(-3))),
     NilPtrVal, NilErrPtrVal, ErrorsNew(<<"e">>), ErrStructVal(<<"e", Q>>),
     ErrnoVal(2, <<"e", "2">>), FuncVal, ChanVal, CyclicMapVal, StructVal(1)}

\* the elements of the odd-length sequences
OddArgs == {StrVal(<<"k">>), IntVal(7), ErrorsNew(<<"e">>), FuncVal}

\* the values of the sequences of more than one pair
CoreValueArgs == {StrVal(<<"v", "<">>), NilPtrVal, ErrorsNew(<<"e">>), ErrnoVal(2, <<"e", "2">>)}

\* the sequences of n pairs with values in vs
PairLists(n, vs) ==
    {[j \in 1..(2 * n) |-> IF j % 2 = 1 THEN ps[(j + 1) \div 2][1] ELSE ps[j \div 2][2]] :
        ps \in [1..n -> KeyArgs \X vs]}

ArgLists ==
    PairLists(1, ValueArgs)
    \cup UNION {PairLists(n, CoreValueArgs) : n \in 0..(MaxArgs \div 2)}
    \cup UNION {[1..n -> OddArgs] : n \in {m \in 1..MaxArgs : m % 2 = 1}}

\* the argument sequences of the concurrent calls
ConcArgLists ==
    {<<>>,
     <<StrVal(<<"k">>), ErrorsNew(<<"e">>)>>,
     <<StrVal(<<"k">>)>>,
     <<IntVal(7), FuncVal, StrVal(<<>>), NilPtrVal>>}

\* ------------------------------------------------------------- state

VARIABLES
    name,   \* the formatter's name field, set by NewJSONFormatter
    level,  \* level[c], msg[c], args[c]: the arguments of call c of LogEntry
    msg,
    args,
    pc,     \* pc[c]: where call c is
    i,      \* i[c]: the loop index of Format in call c
    buf,    \* buf[c]: the buffer LogEntry declares and passes to Format
    log,    \* log[c]: the calls of set made in call c so far
    entry   \* entry[c]: the map LogEntry returns

vars == <<name, level, msg, args, pc, i, buf, log, entry>>

Calls == DOMAIN pc

\* NewJSONFormatter(nm), and the calls in cs about to start
InitCalls(cs, lists) ==
    /\ name \in Names
    /\ level \in [cs -> Levels]
    /\ msg \in [cs -> Msgs]
    /\ args \in [cs -> lists]
    /\ pc = [c \in cs |-> "start"]
    /\ i = [c \in cs |-> 0]
    /\ buf = [c \in cs |-> <<>>]
    /\ log = [c \in cs |-> <<>>]
    /\ entry = [c \in cs |-> <<>>]

Init == InitCalls({1}, ArgLists)

InitConc ==
    /\ InitCalls(1..NumCalls, ConcArgLists)
    /\ \A c \in 1..NumCalls : level[c] = 1 /\ msg[c] = <<"m">>

\* every call writing to one buffer kept in the formatter
StateShared(c) == [buf |-> buf[1], ok |-> TRUE, log |-> log[c], site |-> "", i |-> i[c]]

\* the buffer of call c as the writing operations take it
State(c) == [buf |-> buf[c], ok |-> TRUE, log |-> log[c], site |-> "", i |-> i[c]]

\* call c has written st and goes on at next, unless it panicked
Goes(c, st, next) ==
    /\ buf' = [buf EXCEPT ![c] = st.buf]
    /\ log' = [log EXCEPT ![c] = st.log]
    /\ pc' = [pc EXCEPT ![c] = IF st.ok THEN next ELSE "panic"]

WriteHead(c) ==
    /\ pc[c] = "start"
    /\ Goes(c, FormatHead(State(c), name, level[c]), "msg")
    /\ UNCHANGED <<name, level, msg, args, i, entry>>

WriteMsg(c) ==
    /\ pc[c] = "msg"
    /\ Goes(c, FormatMsg(State(c), msg[c]), "args")
    /\ UNCHANGED <<name, level, msg, args, i, entry>>

WritePair(c) ==
    /\ pc[c] = "args"
    /\ Len(args[c]) % 2 = 0
    /\ i[c] < Len(args[c])
    /\ Goes(c, FormatPair(State(c), args[c], i[c]), "args")
    /\ i' = [i EXCEPT ![c] = @ + 2]
    /\ UNCHANGED <<name, level, msg, args, entry>>

WriteOdd(c) ==
    /\ pc[c] = "args"
    /\ Len(args[c]) % 2 = 1
    /\ Goes(c, FormatOdd(State(c), args[c]), "close")
    /\ UNCHANGED <<name, level, msg, args, i, entry>>

WriteClose(c) ==
    /\ \/ pc[c] = "close"
       \/ pc[c] = "args" /\ Len(args[c]) % 2 = 0 /\ i[c] >= Len(args[c])
    /\ Goes(c, FormatClose(State(c)), "done")
    /\ UNCHANGED <<name, level, msg, args, i, entry>>

\* lines 149-154: Format has returned; LogEntry decodes the buffer
LogEntry(c) ==
    /\ pc[c] = "done"
    /\ LET r == Unmarshal(buf[c])
       IN  /\ pc' = [pc EXCEPT ![c] = IF r.ok THEN "returned" ELSE "fatal"]
           /\ entry' = [entry EXCEPT ![c] = r.entry]
    /\ UNCHANGED <<name, level, msg, args, i, buf, log>>

Next ==
    \/ \E c \in Calls : WriteHead(c)
    \/ \E c \in Calls : WriteMsg(c)
    \/ \E c \in Calls : WritePair(c)
    \/ \E c \in Calls : WriteOdd(c)
    \/ \E c \in Calls : WriteClose(c)
    \/ \E c \in Calls : LogEntry(c)

Spec == Init /\ [][Next]_vars

SpecConc == InitConc /\ [][Next]_vars

\* ------------------------------------------------------------- properties

\* Format has returned in call c
Returned(c) == pc[c] \in {"done", "returned", "fatal"}

Even(n) == n % 2 = 0
HalfUp(n) == (n + 1) \div 2

\* where the value of a field starts: after  , "key":
ValueStart(rec) == rec.at + 5 + Len(rec.key)

\* the bytes between the colon of field j of call c and the next field (or
\* the closing brace)
FieldValue(c, j) ==
    SubSeq(buf[c], ValueStart(log[c][j]),
           IF j < Len(log[c]) THEN log[c][j + 1].at - 1
           ELSE IF Returned(c) THEN Len(buf[c]) - 2 ELSE Len(buf[c]))

\* the bytes of the key of field j as they stand in the buffer, quotes included
FieldKey(c, j) == SubSeq(buf[c], log[c][j].at + 2, ValueStart(log[c][j]) - 2)

\* the whole of field j as it stands in the buffer
FieldText(c, j) == <<",", " ", Q>> \o log[c][j].key \o <<Q, ":">> \o FieldValue(c, j)

\* what appendValue writes for val itself, without a field it may add after it
OwnEncoding(val) ==
    LET r == appendValue(FreshBuffer, val)
    IN  SubSeq(r.buf, 1, IF r.log = <<>> THEN Len(r.buf) ELSE r.log[1].at - 1)

\* the decoded value of a JSON text
Decode(b) == ParseDocument(b).v

\* an error that appendValue reaches in the default case of its switch
WrittenAsError(val) ==
    /\ val.isErr
    /\ LET kind == IF val.k = "ptr" THEN Elem(val).k ELSE val.k
       IN  ~(IsBoolKind(kind) \/ IsIntKind(kind) \/ IsUintKind(kind) \/ IsFloatKind(kind))

\* no character of s needs escaping in a JSON string
PlainText(s) == \A j \in 1..Len(s) : s[j] \notin {Q, BS} \cup ControlChars

KeyT == <<"_", "t">>
KeyL == <<"_", "l">>
KeyN == <<"_", "n">>
KeyM == <<"_", "m">>

\* C1: whenever Format has returned, its buffer holds exactly one valid JSON
\* object followed by exactly one newline.
C1_ValidJSON ==
    \A c \in Calls :
        pc[c] = "done" =>
            LET r == ParseValue(buf[c], 1)
            IN  /\ r.ok
                /\ r.v.t = "obj"
                /\ r.end = Len(buf[c])
                /\ buf[c][Len(buf[c])] = NL

\* C2: no call of Format ever panics, whatever values it is given.
C2_NeverPanics == \A c \in Calls : pc[c] # "panic"

\* C3: whenever Format has returned, the name, the message and the key of
\* every field stand in the buffer as json.Marshal writes a string.
C3_AllEscaped ==
    \A c \in Calls :
        pc[c] = "done" =>
            /\ IsPrefix(<<"{", Q>> \o KeyT \o <<Q, ":">> \o QuoteJSON(TimeNow)
                        \o <<",", " ", Q>> \o KeyL \o <<Q, ":">> \o QuoteJSON(LevelMap(level[c]))
                        \o <<",", " ", Q>> \o KeyN \o <<Q, ":">> \o QuoteJSON(name)
                        \o <<",", " ", Q>> \o KeyM \o <<Q, ":">> \o QuoteJSON(msg[c]),
                        buf[c])
            /\ \A j \in 1..Len(log[c]) : FieldKey(c, j) = QuoteJSON(log[c][j].key)

\* C4 as stated: whenever Format has returned, it has emitted exactly
\* ceil(len(args)/2) fields after _m.
C4_Original == \A c \in Calls : pc[c] = "done" => Len(log[c]) = HalfUp(Len(args[c]))

\* C4 as amended: whenever Format has returned, it has emitted one field for
\* each pair when the number of arguments is even and the one catch-all field
\* when it is odd, and one callstack field more for every pair value that
\* appendValue writes as an error.
C4_FieldCount ==
    \A c \in Calls :
        pc[c] = "done" =>
            /\ Len(SelectSeq(log[c], LAMBDA rec : rec.site # "callstack"))
                    = (IF Even(Len(args[c])) THEN Len(args[c]) \div 2 ELSE 1)
            /\ Len(SelectSeq(log[c], LAMBDA rec : rec.site = "callstack"))
                    = Cardinality({j \in 1..Len(args[c]) :
                                      Even(Len(args[c])) /\ Even(j) /\ WrittenAsError(args[c][j])})

\* two pairs, both with an error for a value: four fields
C4_Witness ==
    \E c \in Calls :
        /\ pc[c] = "done"
        /\ Len(args[c]) = 4
        /\ WrittenAsError(args[c][2]) /\ WrittenAsError(args[c][4])
        /\ Len(log[c]) = 4

\* C5: whenever Format has returned, every pair whose value is of an error
\* type has a field holding the JSON string of the error's text, followed by a
\* field under the callstack key holding a JSON string.
C5_ErrorsEnriched ==
    \A c \in Calls :
        pc[c] = "done" =>
            \A j \in 1..Len(log[c]) :
                (log[c][j].site = "pair" /\ log[c][j].val.isErr) =>
                    /\ FieldValue(c, j) = QuoteJSON(ErrorText(log[c][j].val))
                    /\ j < Len(log[c])
                    /\ log[c][j + 1].site = "callstack"
                    /\ log[c][j + 1].key = callstackKey
                    /\ Decode(FieldValue(c, j + 1)).t = "str"

\* the last field of call c written under key k
LastField(c, k) == CHOOSE j \in 1..Len(log[c]) :
                        /\ log[c][j].key = k
                        /\ \A h \in (j + 1)..Len(log[c]) : log[c][h].key # k

\* the decoded value of the last member Format wrote under key k
LastWritten(c, k) ==
    IF \E j \in 1..Len(log[c]) : log[c][j].key = k THEN Decode(FieldValue(c, LastField(c, k)))
    ELSE CASE k = KeyT -> JStr(TimeNow)
           [] k = KeyL -> JStr(LevelMap(level[c]))
           [] k = KeyN -> JStr(name)
           [] k = KeyM -> JStr(msg[c])

\* C6 as stated: whenever LogEntry returns, the map has the four fixed keys
\* and one entry of its own for every field Format emitted, each holding the
\* decoded value of that field.
C6_Original ==
    \A c \in Calls :
        pc[c] = "returned" =>
            /\ {KeyT, KeyL, KeyN, KeyM} \subseteq DOMAIN entry[c]
            /\ Cardinality(DOMAIN entry[c]) = 4 + Len(log[c])
            /\ \A j \in 1..Len(log[c]) :
                    /\ log[c][j].key \in DOMAIN entry[c]
                    /\ entry[c][log[c][j].key] = Decode(FieldValue(c, j))

\* C6 as amended: whenever LogEntry returns and neither the name nor a key
\* holds a quote, a backslash or a control character, the keys of the map are
\* the four fixed keys and the keys of the emitted fields, and each entry
\* holds the decoded value of the last member written under its key.
C6_LastWins ==
    \A c \in Calls :
        (/\ pc[c] = "returned"
         /\ PlainText(name)
         /\ \A j \in 1..Len(log[c]) : PlainText(log[c][j].key)) =>
            /\ DOMAIN entry[c] = {KeyT, KeyL, KeyN, KeyM} \cup {log[c][j].key : j \in 1..Len(log[c])}
            /\ \A k \in DOMAIN entry[c] : entry[c][k] = LastWritten(c, k)

\* LogEntry has returned a map in which one entry stands for two fields (two
\* call stacks) and another for the message and a field named _m
C6_Witness ==
    \E c \in Calls :
        /\ pc[c] = "returned"
        /\ PlainText(name)
        /\ msg[c] = <<BS, Q>>
        /\ Len(log[c]) = 4
        /\ log[c][1].key = KeyM
        /\ log[c][2].key = callstackKey
        /\ log[c][3].key = <<"k">>
        /\ log[c][4].key = callstackKey
        /\ Cardinality(DOMAIN entry[c]) = 6

\* the argument sequence as one JSON array, each element as json.Marshal writes it
ElementsDecoded(as) == [j \in 1..Len(as) |-> Decode(JsonMarshal(as[j]).b)]

\* C7 as stated: whenever Format has returned from a call with an odd number
\* of arguments, it has emitted one field, under the imbalanced-arguments key,
\* whose value is a JSON array of all the arguments in their order.
C7_Original ==
    \A c \in Calls :
        (pc[c] = "done" /\ ~Even(Len(args[c]))) =>
            /\ Len(log[c]) = 1
            /\ log[c][1].key = warnImbalancedKey
            /\ log[c][1].site = "odd"
            /\ Decode(FieldValue(c, 1)) = JArr(ElementsDecoded(args[c]))

\* C7 as amended: whenever Format has returned from a call with an odd number
\* of arguments, it has emitted one field, under the imbalanced-arguments key;
\* its value is the JSON array of all the arguments in their order when
\* json.Marshal accepts every one of them, and otherwise the JSON string of
\* the %#v text of the whole sequence.
C7_OddCatchAll ==
    \A c \in Calls :
        (pc[c] = "done" /\ ~Even(Len(args[c]))) =>
            /\ Len(log[c]) = 1
            /\ log[c][1].key = warnImbalancedKey
            /\ log[c][1].site = "odd"
            /\ IF \A j \in 1..Len(args[c]) : JsonMarshal(args[c][j]).ok
               THEN Decode(FieldValue(c, 1)) = JArr(ElementsDecoded(args[c]))
               ELSE Decode(FieldValue(c, 1)) = JStr(GoSyntax(SliceVal(args[c]), 0).b)

\* three arguments, the first of them a string, written as an array
C7_Witness ==
    \E c \in Calls :
        /\ pc[c] = "done"
        /\ Len(args[c]) = 3
        /\ args[c][1].k = "string"
        /\ args[c][3].k = "int"
        /\ \A j \in 1..3 : JsonMarshal(args[c][j]).ok
        /\ Len(log[c]) = 1
        /\ Decode(FieldValue(c, 1)).t = "arr"

\* the key Format is to use for the pair whose key is at index x (from 0)
ExpectedKey(as, x) ==
    IF as[x + 1].k = "string" /\ as[x + 1].s # <<>> THEN as[x + 1].s ELSE badKeyAtIndex(x)

\* C8: whenever Format has returned from a call with an even, non-zero number
\* of arguments, every pair has exactly one field from the loop: under the
\* key itself when that is a non-empty string, under the marker of the key's
\* index otherwise, with the encoding of the pair's value; and the markers of
\* two pairs differ.
C8_Pairs ==
    \A c \in Calls :
        (pc[c] = "done" /\ Even(Len(args[c])) /\ Len(args[c]) > 0) =>
            \A x \in {y \in 0..(Len(args[c]) - 1) : Even(y)} :
                /\ Cardinality({j \in 1..Len(log[c]) :
                                    log[c][j].site = "pair" /\ log[c][j].i = x}) = 1
                /\ \A j \in 1..Len(log[c]) :
                        (log[c][j].site = "pair" /\ log[c][j].i = x) =>
                            /\ log[c][j].key = ExpectedKey(args[c], x)
                            /\ FieldValue(c, j) = OwnEncoding(args[c][x + 2])
                /\ \A y \in {z \in 0..(Len(args[c]) - 1) : Even(z)} :
                        x # y => badKeyAtIndex(x) # badKeyAtIndex(y)

\* two pairs, the first with an empty key and the second with a key that is
\* no string: two different markers
C8_Witness ==
    \E c \in Calls :
        /\ pc[c] = "done"
        /\ Len(args[c]) = 4
        /\ args[c][1] = StrVal(<<>>)
        /\ args[c][3].k = "int"
        /\ Len(log[c]) = 2
        /\ log[c][1].key = badKeyAtIndex(0)
        /\ log[c][2].key = badKeyAtIndex(2)

\* C9: with several calls running at once, the buffer of a call that has
\* ended holds what Format writes for its arguments when run alone; no step
\* changes the name, and a step changes the buffer of one call at most.
C9_Isolated ==
    /\ [](\A c \in Calls :
            pc[c] \in {"done", "returned", "fatal", "panic"} =>
                buf[c] = Format(name, level[c], msg[c], args[c]).buf)
    /\ [][/\ name' = name
          /\ \E c \in Calls : \A d \in Calls \ {c} : buf'[d] = buf[d] /\ log'[d] = log[d]]_vars

\* call 1 has returned while call 2, with other arguments, is between two pairs
C9_Witness ==
    /\ NumCalls >= 2
    /\ Calls = 1..NumCalls
    /\ pc[1] = "done"
    /\ pc[2] = "args"
    /\ i[2] = 2
    /\ args[1] # args[2]
    /\ Len(args[1]) > 0

\* C10: whenever Format has returned, the buffer is the members _t, _l, _n,
\* _m in that order, then the emitted fields one after the other, then the
\* closing brace and the newline; the fields of the pairs stand in the order of
\* the pairs, and a callstack field stands right after the field of the error
\* it was made for.
C10_Order ==
    \A c \in Calls :
        pc[c] = "done" =>
            /\ buf[c] = <<"{", Q>> \o KeyT \o <<Q, ":", Q>> \o TimeNow \o <<Q>>
                        \o <<",", " ", Q>> \o KeyL \o <<Q, ":", Q>> \o LevelMap(level[c]) \o <<Q>>
                        \o <<",", " ", Q>> \o KeyN \o <<Q, ":", Q>> \o name \o <<Q>>
                        \o <<",", " ", Q>> \o KeyM \o <<Q, ":">> \o QuoteJSON(msg[c])
                        \o Concat([j \in 1..Len(log[c]) |-> FieldText(c, j)])
                        \o <<"}", NL>>
            /\ \A j, h \in 1..Len(log[c]) :
                    j < h => /\ log[c][j].i <= log[c][h].i
                             /\ (log[c][j].site = "pair" /\ log[c][h].site = "pair")
                                    => log[c][j].i < log[c][h].i
            /\ \A h \in 1..Len(log[c]) :
                    log[c][h].site = "callstack" =>
                        /\ h > 1
                        /\ log[c][h - 1].site = "pair"
                        /\ log[c][h - 1].i = log[c][h].i
                        /\ WrittenAsError(log[c][h - 1].val)
                        /\ FieldValue(c, h - 1) = QuoteJSON(ErrorText(log[c][h - 1].val))
                        /\ FieldValue(c, h) = QuoteJSON(DebugStack)

\* an error in the first of two pairs: its field, its call stack, then the
\* field of the second pair
C10_Witness ==
    \E c \in Calls :
        /\ pc[c] = "done"
        /\ Len(args[c]) = 4
        /\ WrittenAsError(args[c][2])
        /\ ~args[c][4].isErr
        /\ Len(log[c]) = 3
        /\ log[c][2].site = "callstack"
        /\ log[c][3].site = "pair"

=============================================================================
